---- MODULE Spec2Model ----
(***************************************************************************)
(* Model of the tanstack-query runtime of zenstack                         *)
(* (packages/plugins/tanstack-query/src/runtime/common.ts and the react    *)
(* hook useModelMutation): the invalidation predicate, the optimistic      *)
(* update scan and the lifecycle wrappers installed on a mutation.         *)
(***************************************************************************)
EXTENDS Integers, Sequences, FiniteSets, TLC

(***************************************************************************)
(* Bounds of the model.                                                    *)
(***************************************************************************)
\* number of environment steps (queries mounted, removed, fetches settling)
MaxEnvSteps == 3

(***************************************************************************)
(* JavaScript values.                                                      *)
(***************************************************************************)
\* the value undefined
UNDEF == "undefined"

\* the value null
NULL == "null"

\* QUERY_KEY_PREFIX
QUERY_KEY_PREFIX == "zenstack"

(***************************************************************************)
(* ModelMeta: the schema graph.  User.posts -> Post, Post.author -> User,  *)
(* Tag has no relation.                                                    *)
(***************************************************************************)
Models == {"User", "Post", "Tag"}

RelationFields == {"posts", "author"}

\* the relation fields of a model, each with its target model
ModelMeta ==
    [m \in Models |->
        CASE m = "User" -> {<<"posts", "Post">>}
          [] m = "Post" -> {<<"author", "User">>}
          [] OTHER      -> {}]

(***************************************************************************)
(* Query args.  A value is undefined, null, false or an object whose       *)
(* relation selection is a set of paths of relation fields                 *)
(* ({include: {posts: {include: {author: true}}}} selects <<posts>> and    *)
(* <<posts, author>>).                                                     *)
(***************************************************************************)
IncludePaths == {<<"posts">>, <<"author">>, <<"posts", "author">>, <<"author", "posts">>}

ArgKinds == {"undefined", "null", "false", "object"}

QueryArgs ==
    {[kind |-> k, include |-> {}] : k \in ArgKinds \ {"object"}}
        \cup {[kind |-> "object", include |-> i] : i \in SUBSET IncludePaths}

NoArgs == [kind |-> "undefined", include |-> {}]

\* JavaScript truthiness of an args value: `if (args)`
Truthy(v) == v.kind = "object"

\* the five-element query key
QueryKey(model, operation, args, infinite, optimisticUpdate) ==
    [prefix |-> QUERY_KEY_PREFIX, model |-> model, operation |-> operation,
     args |-> args, infinite |-> infinite, optimisticUpdate |-> optimisticUpdate]

QueryOps == {"findMany", "findUnique"}

AllQueryKeys ==
    {QueryKey(m, o, a, i, u) :
        m \in Models, o \in QueryOps, a \in QueryArgs, i \in BOOLEAN, u \in BOOLEAN}

(***************************************************************************)
(* getReadModels (runtime/cross): the models a read reaches through its    *)
(* relation selection, the visited model included.                         *)
(***************************************************************************)
RECURSIVE ReadModelsFrom(_, _)
ReadModelsFrom(model, paths) ==
    {model} \cup
        UNION {ReadModelsFrom(r[2],
                   {Tail(p) : p \in {q \in paths : Len(q) > 1 /\ Head(q) = r[1]}})
               : r \in {x \in ModelMeta[model] : <<x[1]>> \in paths}}

getReadModels(model, args) == ReadModelsFrom(model, args.include)

\* variant: every target model must be among the models read
findNestedRead_every(visitingModel, targetModels, args) ==
    \A m \in targetModels : m \in getReadModels(visitingModel, args)

\* findNestedRead: some target model is among the models read
findNestedRead(visitingModel, targetModels, args) ==
    \E m \in targetModels : m \in getReadModels(visitingModel, args)

(***************************************************************************)
(* The predicate returned by getInvalidationPredicate, for the captured    *)
(* mutatedModels.  result is the returned boolean, logged the number of    *)
(* console.log lines written, scanned whether the nested-read scanner was  *)
(* consulted.                                                              *)
(***************************************************************************)
\* variant: the direct match is not tested
InvalidationPredicate_noDirect(mutatedModels, queryKey, logging) ==
    IF Truthy(queryKey.args)
    THEN IF findNestedRead(queryKey.model, mutatedModels, queryKey.args)
         THEN [result |-> TRUE, logged |-> IF logging THEN 1 ELSE 0, scanned |-> TRUE]
         ELSE [result |-> FALSE, logged |-> 0, scanned |-> TRUE]
    ELSE [result |-> FALSE, logged |-> 0, scanned |-> FALSE]

\* variant: the args are scanned whether present or not
InvalidationPredicate_noArgsTest(mutatedModels, queryKey, logging) ==
    IF queryKey.model \in mutatedModels
    THEN [result |-> TRUE, logged |-> IF logging THEN 1 ELSE 0, scanned |-> FALSE]
    ELSE IF findNestedRead(queryKey.model, mutatedModels, queryKey.args)
         THEN [result |-> TRUE, logged |-> IF logging THEN 1 ELSE 0, scanned |-> TRUE]
         ELSE [result |-> FALSE, logged |-> 0, scanned |-> TRUE]

\* variant: `return true` sits inside the `if (logging)` block
InvalidationPredicate_returnInLog(mutatedModels, queryKey, logging) ==
    IF queryKey.model \in mutatedModels /\ logging
    THEN [result |-> TRUE, logged |-> 1, scanned |-> FALSE]
    ELSE IF Truthy(queryKey.args)
         THEN IF findNestedRead(queryKey.model, mutatedModels, queryKey.args)
              THEN [result |-> TRUE, logged |-> IF logging THEN 1 ELSE 0, scanned |-> TRUE]
              ELSE [result |-> FALSE, logged |-> 0, scanned |-> TRUE]
         ELSE [result |-> FALSE, logged |-> 0, scanned |-> FALSE]

InvalidationPredicate(mutatedModels, queryKey, logging) ==
    IF queryKey.model \in mutatedModels
    THEN [result |-> TRUE, logged |-> IF logging THEN 1 ELSE 0, scanned |-> FALSE]
    ELSE IF Truthy(queryKey.args)
         THEN IF findNestedRead(queryKey.model, mutatedModels, queryKey.args)
              THEN [result |-> TRUE, logged |-> IF logging THEN 1 ELSE 0, scanned |-> TRUE]
              ELSE [result |-> FALSE, logged |-> 0, scanned |-> TRUE]
         ELSE [result |-> FALSE, logged |-> 0, scanned |-> FALSE]


(***************************************************************************)
(* Cached data.  A result is undefined or a list-shaped result holding     *)
(* some of the items.                                                      *)
(***************************************************************************)
Items == {1}

UndefData == [defined |-> FALSE, items |-> {}]

DefinedData == {[defined |-> TRUE, items |-> s] : s \in SUBSET Items}

DataValues == {UndefData} \cup DefinedData

(***************************************************************************)
(* The mutation: its request URL, its arguments (variables) and the        *)
(* caller's options.                                                       *)
(***************************************************************************)
\* request URLs as their '/'-separated segments; the last one ends in '/'
MutationUrls ==
    {<<"api", "model", "post", "create">>,
     <<"api", "model", "post", "delete">>,
     <<"api", "model", "post", "">>}

\* url.split('/').pop()
LastSegment(url) == url[Len(url)]

MutationModels == {"Post"}

\* the id written and the relation fields carrying a nested write
MutationArgs == {[id |-> i, nested |-> n] : i \in Items, n \in {{}, {"author"}}}

NoVars == [id |-> 0, nested |-> {}]

\* the lifecycle hooks a caller may supply in the options
HookNames == {"onMutate", "onSuccess", "onSettled"}

\* each hook is supplied in one of the option sets and missing in the other
HookSets == {{"onSuccess"}, {"onMutate", "onSettled"}}

\* what the caller's hooks return
HookReturn(phase) ==
    CASE phase = "onMutate" -> "context"
      [] phase = "onSuccess" -> "successResult"
      [] OTHER -> "settledResult"

Configs ==
    [model : MutationModels, url : MutationUrls, hooks : HookSets,
     invalidateQueries : BOOLEAN, optimisticUpdate : BOOLEAN]

(***************************************************************************)
(* getMutatedModels (runtime/cross): the mutation's model and the target   *)
(* of every relation field written through.                                *)
(***************************************************************************)
getMutatedModels(model, operation, mutationArgs) ==
    {model} \cup {r[2] : r \in {x \in ModelMeta[model] : x[1] \in mutationArgs.nested}}

(***************************************************************************)
(* applyMutation (runtime/cross): the merged result, or undefined when     *)
(* the mutation does not apply to the cached result.                       *)
(***************************************************************************)
applyMutation(queryModel, queryOp, data, mutationModel, mutationOp, mutationArgs) ==
    IF ~data.defined \/ queryModel # mutationModel
    THEN UndefData
    ELSE CASE mutationOp = "create" /\ mutationArgs.id \notin data.items ->
                [defined |-> TRUE, items |-> data.items \cup {mutationArgs.id}]
           [] mutationOp = "delete" /\ mutationArgs.id \in data.items ->
                [defined |-> TRUE, items |-> data.items \ {mutationArgs.id}]
           [] OTHER -> UndefData

(***************************************************************************)
(* The query cache of the QueryClient.                                     *)
(***************************************************************************)
CacheKeys ==
    {QueryKey("Post", "findMany", NoArgs, FALSE, TRUE),
     QueryKey("Post", "findMany", NoArgs, FALSE, FALSE),
     QueryKey("Post", "findMany", [kind |-> "object", include |-> {<<"author">>}], FALSE, TRUE)}

NoQuery == [data |-> UndefData, error |-> NULL, fetching |-> FALSE]

\* an element of queryClient.getQueryCache().getAll(): a Query object.  A
\* live one shows the cache's state of its key; one removed from the cache
\* since keeps the state it had.
LiveItem(key) == [key |-> key, live |-> TRUE, data |-> UndefData, error |-> NULL]

VARIABLES
    queries,    \* the keys of the cached queries, in insertion order
    qstate,     \* key -> state (data, error, fetching) of its cached query
    cfg,        \* the arguments of useModelMutation
    hook,       \* the rendered hook: the entry list its wrappers captured
    mut,        \* the execution of the mutation
    hist,       \* what the execution did so far, in order
    envSteps,   \* environment steps taken
    predEval,   \* the last evaluation of an invalidation predicate
    call        \* the last call of fetcher, getQueryKey or marshal and unmarshal

vars == <<queries, qstate, cfg, hook, mut, hist, envSteps, predEval, call>>

Range(s) == {s[i] : i \in 1..Len(s)}

Present(key) == key \in Range(queries)

\* the operation name of the mutation
Operation == LastSegment(cfg.url)

\* useModelMutation installs the wrappers only when an operation name is found
InvalidationInstalled == Operation # "" /\ cfg.invalidateQueries

OptimisticInstalled == Operation # "" /\ cfg.optimisticUpdate

\* variant: setupOptimisticUpdate receives invalidate whatever invalidateQueries is
SettleInvalidate_always == OptimisticInstalled

\* the invalidate function setupOptimisticUpdate receives
SettleInvalidate == OptimisticInstalled /\ cfg.invalidateQueries


(***************************************************************************)
(* What the execution records: calls of the wrapped phases, of the         *)
(* caller's hooks, of applyMutation, setCache and invalidate, the request  *)
(* and its response.                                                       *)
(***************************************************************************)
NoKey == QueryKey("", "", NoArgs, FALSE, FALSE)

\* argument values: a string-like value or the mutation's variables
StrVal(x) == [s |-> x, v |-> NoVars]

VarsVal(v) == [s |-> "variables", v |-> v]

Ev(ev, phase, key, data, err, args, ret) ==
    [ev |-> ev, phase |-> phase, key |-> key, data |-> data, err |-> err,
     args |-> args, ret |-> ret]

\* a call of a wrapped phase or of a caller's hook, with its arguments
CallEv(ev, phase, args) == Ev(ev, phase, NoKey, UndefData, NULL, args, UNDEF)

\* a wrapped phase returning (resolving to) a value
ReturnEv(phase, ret) == Ev("return", phase, NoKey, UndefData, NULL, <<>>, ret)

\* a wrapped phase rejecting
ThrowEv(phase) == Ev("throw", phase, NoKey, UndefData, NULL, <<>>, UNDEF)

PlainEv(ev, phase) == Ev(ev, phase, NoKey, UndefData, NULL, <<>>, UNDEF)

IdleMut ==
    [pc |-> "idle", variables |-> NoVars, scan |-> <<>>, idx |-> 0,
     pending |-> UndefData, outcome |-> "none", failed |-> FALSE,
     context |-> UNDEF, mutated |-> {}]

\* the arguments the mutation passes to each phase
MutateArgs(m) == <<VarsVal(m.variables)>>

SuccessArgs(m) == <<StrVal("response"), VarsVal(m.variables), StrVal(m.context)>>

SettledArgs(m) ==
    IF m.outcome = "success" /\ ~m.failed
    THEN <<StrVal("response"), StrVal(NULL), VarsVal(m.variables), StrVal(m.context)>>
    ELSE <<StrVal(UNDEF), StrVal("error"), VarsVal(m.variables), StrVal(m.context)>>

PhaseArgs(phase, m) ==
    CASE phase = "onMutate" -> MutateArgs(m)
      [] phase = "onSuccess" -> SuccessArgs(m)
      [] OTHER -> SettledArgs(m)

\* variant: the wrapped onSettled destructures as the wrapped onSuccess does
PhaseVariables_second(phase, m) ==
    IF phase = "onMutate" THEN PhaseArgs(phase, m)[1].v ELSE PhaseArgs(phase, m)[2].v

\* the variables a wrapped phase takes from its arguments: [variables],
\* [_, variables] and [, , variables]
PhaseVariables(phase, m) ==
    CASE phase = "onMutate" -> PhaseArgs(phase, m)[1].v
      [] phase = "onSuccess" -> PhaseArgs(phase, m)[2].v
      [] OTHER -> PhaseArgs(phase, m)[3].v

(***************************************************************************)
(* optimisticUpdate: the scan of the captured entry list.                  *)
(***************************************************************************)
\* cacheItem.state of a scanned entry
ItemState(it, qs) ==
    IF it.live
    THEN [data |-> qs[it.key].data, error |-> qs[it.key].error]
    ELSE [data |-> it.data, error |-> it.error]

\* variant: entries holding an error are not skipped
SkipForError_never(state) == FALSE

\* if (error) { ...; continue; }
SkipForError(state) == state.error # NULL

\* variant: opted-out entries are not skipped
SkipForOptOut_never(queryKey) == FALSE

\* if (!optimisticUpdate) { ...; continue; }
SkipForOptOut(queryKey) == ~queryKey.optimisticUpdate

\* the entries the loop passes over without awaiting, from index i on
RECURSIVE SkipEvents(_, _, _)
SkipEvents(scan, i, qs) ==
    IF i > Len(scan)
    THEN <<>>
    ELSE LET st == ItemState(scan[i], qs)
         IN  IF SkipForError(st)
             THEN <<Ev("skipError", "onMutate", scan[i].key, st.data, st.error, <<>>, UNDEF)>>
                      \o SkipEvents(scan, i + 1, qs)
             ELSE IF SkipForOptOut(scan[i].key)
                  THEN <<Ev("skipOptOut", "onMutate", scan[i].key, st.data, st.error, <<>>, UNDEF)>>
                           \o SkipEvents(scan, i + 1, qs)
                  ELSE <<>>

\* the loop from index i to its next await (of applyMutation) or to its end
ContinueScan(m, h, i, qs) ==
    LET skipped == SkipEvents(m.scan, i, qs)
        j == i + Len(skipped)
        h1 == h \o skipped
    IN  IF j > Len(m.scan)
        THEN [m |-> [m EXCEPT !.pc = "scanned", !.idx = j, !.pending = UndefData],
              h |-> h1]
        ELSE LET st == ItemState(m.scan[j], qs)
                 k == m.scan[j].key
                 variables == PhaseVariables("onMutate", m)
             IN  [m |-> [m EXCEPT !.pc = "scan", !.idx = j,
                                  !.pending = applyMutation(k.model, k.operation, st.data,
                                                  cfg.model, Operation, variables)],
                  h |-> Append(h1, Ev("merge", "onMutate", k, st.data, st.error,
                                      <<VarsVal(variables)>>, UNDEF))]

\* the caller's hook of a phase, if supplied: origOnX?.(...args)
CallOrig(phase, args, h) ==
    IF phase \in cfg.hooks
    THEN [h |-> Append(h, CallEv("orig", phase, args)), ret |-> HookReturn(phase)]
    ELSE [h |-> h, ret |-> UNDEF]

\* variant: the caller's hook is called but its value is not returned
FinishPhase_noReturn(phase, args, h) ==
    LET o == CallOrig(phase, args, h)
    IN  [h |-> Append(o.h, ReturnEv(phase, UNDEF)), ret |-> UNDEF]

\* the wrapped phase ends by returning what the caller's hook returned
FinishPhase(phase, args, h) ==
    LET o == CallOrig(phase, args, h)
    IN  [h |-> Append(o.h, ReturnEv(phase, o.ret)), ret |-> o.ret]

(***************************************************************************)
(* setCache as useModelMutation passes it: setQueryData replaces the data  *)
(* of the key's query (building the query if the cache holds none) and     *)
(* puts it in the success state, which clears its error; cancelQueries     *)
(* stops its fetch in flight without reverting.                            *)
(***************************************************************************)
\* variant: the merged items are added to the cached ones (a patch)
setCacheState_patch(old, data) ==
    [data |-> [defined |-> TRUE, items |-> old.data.items \cup data.items],
     error |-> NULL, fetching |-> FALSE]

\* variant: setQueryData alone, the fetch in flight is left running
setCacheState_noCancel(old, data) == [data |-> data, error |-> NULL, fetching |-> old.fetching]

setCacheState(old, data) == [data |-> data, error |-> NULL, fetching |-> FALSE]

setCacheQueries(qs, key) == IF key \in Range(qs) THEN qs ELSE Append(qs, key)


(***************************************************************************)
(* The lifecycle of a mutation (useMutation): onMutate, the request,       *)
(* onSuccess and onSettled, or onSettled alone after a failure.  A phase   *)
(* that rejects on the success path takes the mutation to its failure      *)
(* path, where onSettled is called with the error.                         *)
(***************************************************************************)
Done(m, h) == [m |-> [m EXCEPT !.pc = "done"], h |-> h]

\* variant: the wrapper invalidates only when the mutation succeeded
StartSettled_successOnly(m, h) ==
    LET args == SettledArgs(m)
    IN  IF OptimisticInstalled
        THEN LET h1 == Append(h, CallEv("call", "onSettled", args))
             IN  IF SettleInvalidate /\ m.outcome = "success" /\ ~m.failed
                 THEN [m |-> [m EXCEPT !.pc = "settled_models"], h |-> h1]
                 ELSE Done(m, FinishPhase("onSettled", args, h1).h)
        ELSE Done(m, CallOrig("onSettled", args, h).h)

\* options.onSettled(...): the wrapper of setupOptimisticUpdate, or the caller's hook
StartSettled(m, h) ==
    LET args == SettledArgs(m)
    IN  IF OptimisticInstalled
        THEN LET h1 == Append(h, CallEv("call", "onSettled", args))
             IN  IF SettleInvalidate
                 THEN [m |-> [m EXCEPT !.pc = "settled_models"], h |-> h1]
                 ELSE Done(m, FinishPhase("onSettled", args, h1).h)
        ELSE Done(m, CallOrig("onSettled", args, h).h)

\* options.onSuccess(...): the wrapper of setupInvalidation, or the caller's hook
StartSuccess(m, h) ==
    LET args == SuccessArgs(m)
    IN  IF InvalidationInstalled
        THEN [m |-> [m EXCEPT !.pc = "success_models"],
              h |-> Append(h, CallEv("call", "onSuccess", args))]
        ELSE StartSettled(m, CallOrig("onSuccess", args, h).h)

\* the mutation's request is sent once onMutate has resolved
SendRequest(m, h, context) ==
    [m |-> [m EXCEPT !.pc = "request", !.context = context, !.scan = <<>>,
                     !.idx = 0, !.pending = UndefData],
     h |-> Append(h, PlainEv("request", "-"))]

\* queryClient.invalidateQueries({ predicate }): the matching queries refetch
Invalidated(qs, keys, mutated, logging) ==
    [k \in CacheKeys |->
        IF k \in keys /\ InvalidationPredicate(mutated, k, logging).result
        THEN [qs[k] EXCEPT !.fetching = TRUE]
        ELSE qs[k]]

\* the entry list of queryClient.getQueryCache().getAll(): a fresh array of
\* the Query objects cached at the time of the call (react-query v5)
GetAll == [i \in 1..Len(queries) |-> LiveItem(queries[i])]

\* a Query object removed from the cache keeps its last state
Detach(list, key) ==
    [i \in 1..Len(list) |->
        IF list[i].key = key /\ list[i].live
        THEN [key |-> key, live |-> FALSE, data |-> qstate[key].data,
              error |-> qstate[key].error]
        ELSE list[i]]

Without(s, x) ==
    LET F[i \in 0..Len(s)] ==
            IF i = 0 THEN <<>>
            ELSE IF s[i] = x THEN F[i - 1] ELSE Append(F[i - 1], s[i])
    IN  F[Len(s)]

NoEval == [mutated |-> {}, key |-> NoKey, logging |-> FALSE, result |-> FALSE,
           logged |-> 0, scanned |-> FALSE, done |-> FALSE]

(***************************************************************************)
(* The options objects.  A slot of an options object holds nothing, the    *)
(* caller's hook, or a wrapper that captured what the slot held before.    *)
(* The heap holds the object the caller passed (options) and the object    *)
(* handed to useMutation (finalOptions).                                   *)
(***************************************************************************)
NoHook == [kind |-> "undefined", orig |-> "undefined"]

CallerHook == [kind |-> "caller", orig |-> "undefined"]

WrapperHook(by, orig) == [kind |-> by, orig |-> orig.kind]

NoOptions == [p \in HookNames |-> NoHook]

\* the options object of a caller supplying the hooks of c.hooks
CallerOptions(c) == [p \in HookNames |-> IF p \in c.hooks THEN CallerHook ELSE NoHook]

\* setupInvalidation assigns options.onSuccess of the object it is given
setupInvalidation(heap, options) ==
    [heap EXCEPT ![options]["onSuccess"] = WrapperHook("setupInvalidation", @)]

\* setupOptimisticUpdate assigns options.onMutate and options.onSettled
setupOptimisticUpdate(heap, options) ==
    [heap EXCEPT ![options]["onMutate"] = WrapperHook("setupOptimisticUpdate", @),
                 ![options]["onSettled"] = WrapperHook("setupOptimisticUpdate", @)]

\* variant: the wrappers are installed on the caller's object, which is the
\* one handed to useMutation
InstallWrappers_inPlace(c) ==
    LET heap0 == [options |-> CallerOptions(c), finalOptions |-> NoOptions]
        operation == LastSegment(c.url)
        heap1 == IF operation # "" /\ c.invalidateQueries
                 THEN setupInvalidation(heap0, "options")
                 ELSE heap0
        heap2 == IF operation # "" /\ c.optimisticUpdate
                 THEN setupOptimisticUpdate(heap1, "options")
                 ELSE heap1
    IN  [heap2 EXCEPT !["finalOptions"] = heap2["options"]]

\* useModelMutation: finalOptions is a copy of options ({ ...options,
\* mutationFn }); the wrappers are installed on finalOptions when the url
\* gives an operation name
InstallWrappers(c) ==
    LET heap0 == [options |-> CallerOptions(c), finalOptions |-> CallerOptions(c)]
        operation == LastSegment(c.url)
        heap1 == IF operation # "" /\ c.invalidateQueries
                 THEN setupInvalidation(heap0, "finalOptions")
                 ELSE heap0
        heap2 == IF operation # "" /\ c.optimisticUpdate
                 THEN setupOptimisticUpdate(heap1, "finalOptions")
                 ELSE heap1
    IN  heap2

\* the hook before its first render and after a render
UnrenderedHook(c) ==
    [rendered |-> FALSE, snapshot |-> <<>>,
     heap |-> [options |-> CallerOptions(c), finalOptions |-> NoOptions]]

RenderedHook(c, snapshot) ==
    [rendered |-> TRUE, snapshot |-> snapshot, heap |-> InstallWrappers(c)]

\* no helper has been called
NoCall == [fn |-> "none"]

Init ==
    /\ queries = <<>>
    /\ qstate = [k \in CacheKeys |-> NoQuery]
    /\ cfg \in Configs
    /\ hook = UnrenderedHook(cfg)
    /\ mut = IdleMut
    /\ hist = <<>>
    /\ envSteps = 0
    /\ predEval = NoEval
    /\ call = NoCall

(***************************************************************************)
(* The environment: queries are mounted, their fetches settle, queries     *)
(* are removed from the cache.                                             *)
(***************************************************************************)
\* useModelQuery mounts a query: it is built and its fetch starts
AddQuery(key) ==
    /\ envSteps < MaxEnvSteps
    /\ ~Present(key)
    /\ queries' = Append(queries, key)
    /\ qstate' = [qstate EXCEPT ![key] = [data |-> UndefData, error |-> NULL, fetching |-> TRUE]]
    /\ envSteps' = envSteps + 1
    /\ UNCHANGED <<cfg, hook, mut, hist, predEval, call>>

\* the fetch of a query resolves with the server's data
FetchSuccess(key, data) ==
    /\ envSteps < MaxEnvSteps
    /\ Present(key) /\ qstate[key].fetching
    /\ qstate' = [qstate EXCEPT ![key] = [data |-> data, error |-> NULL, fetching |-> FALSE]]
    /\ envSteps' = envSteps + 1
    /\ UNCHANGED <<queries, cfg, hook, mut, hist, predEval, call>>

\* the fetch of a query rejects
FetchError(key) ==
    /\ envSteps < MaxEnvSteps
    /\ Present(key) /\ qstate[key].fetching
    /\ qstate' = [qstate EXCEPT ![key] = [@ EXCEPT !.error = "Error", !.fetching = FALSE]]
    /\ envSteps' = envSteps + 1
    /\ UNCHANGED <<queries, cfg, hook, mut, hist, predEval, call>>

\* a query is removed from the cache (garbage collection, removeQueries)
RemoveQuery(key) ==
    /\ envSteps < MaxEnvSteps
    /\ Present(key)
    /\ queries' = Without(queries, key)
    /\ qstate' = [qstate EXCEPT ![key] = NoQuery]
    /\ hook' = [hook EXCEPT !.snapshot = Detach(@, key)]
    /\ mut' = [mut EXCEPT !.scan = Detach(@, key)]
    /\ envSteps' = envSteps + 1
    /\ UNCHANGED <<cfg, hist, predEval, call>>

(***************************************************************************)
(* useModelMutation: each render builds finalOptions from the caller's     *)
(* options and installs the wrappers; setupOptimisticUpdate receives the   *)
(* entry list of the cache as of this render.  The mutation, invoked once, *)
(* reads the rendered hook when it is invoked and never again: renders     *)
(* that follow its invocation are left out.                                *)
(***************************************************************************)
Render ==
    /\ mut.pc = "idle"
    /\ hook' = RenderedHook(cfg, IF OptimisticInstalled THEN GetAll ELSE <<>>)
    /\ hook' # hook
    /\ UNCHANGED <<queries, qstate, cfg, mut, hist, envSteps, predEval, call>>

\* variant: the wrapper installed on onMutate is the one that invalidates
Mutate_invalidates(variables) ==
    /\ hook.rendered
    /\ mut.pc = "idle"
    /\ LET m0 == [IdleMut EXCEPT !.variables = variables]
       IN  /\ mut' = [m0 EXCEPT !.pc = IF SettleInvalidate THEN "settled_models" ELSE "request"]
           /\ hist' = <<CallEv("call", "onMutate", MutateArgs(m0))>>
    /\ UNCHANGED <<queries, qstate, cfg, hook, envSteps, predEval, call>>

(***************************************************************************)
(* The mutation is invoked (once): options.onMutate runs up to its first   *)
(* await.  Each action below is one run of the code between two awaits;    *)
(* the environment may take steps at every await.                          *)
(***************************************************************************)
Mutate(variables) ==
    /\ hook.rendered
    /\ mut.pc = "idle"
    /\ LET m0 == [IdleMut EXCEPT !.variables = variables,
                                 !.scan = IF OptimisticInstalled THEN hook.snapshot ELSE <<>>]
           r == IF OptimisticInstalled
                THEN ContinueScan(m0, <<CallEv("call", "onMutate", MutateArgs(m0))>>, 1, qstate)
                ELSE LET o == CallOrig("onMutate", MutateArgs(m0), <<>>)
                     IN  SendRequest(m0, o.h, o.ret)
       IN  mut' = r.m /\ hist' = r.h
    /\ UNCHANGED <<queries, qstate, cfg, hook, envSteps, predEval, call>>

\* optimisticUpdate resumes after `await applyMutation(...)`: setCache when
\* the merge gave a value (cancelQueries stops the key's fetch if one is in
\* flight), then on to the next await or the end of the loop
ScanResume ==
    /\ mut.pc = "scan"
    /\ LET k == mut.scan[mut.idx].key
           write == mut.pending.defined
           qs1 == IF write
                  THEN [qstate EXCEPT ![k] = setCacheState(@, mut.pending)]
                  ELSE qstate
           h0 == IF write
                 THEN Append(hist, Ev("setCache", "onMutate", k, mut.pending, NULL, <<>>, UNDEF))
                 ELSE hist
           h1 == IF write /\ qstate[k].fetching
                 THEN Append(h0, Ev("cancel", "onMutate", k, UndefData, NULL, <<>>, UNDEF))
                 ELSE h0
           r == ContinueScan(mut, h1, mut.idx + 1, qs1)
       IN  /\ qstate' = qs1
           /\ queries' = IF write THEN setCacheQueries(queries, k) ELSE queries
           /\ mut' = r.m
           /\ hist' = r.h
    /\ UNCHANGED <<cfg, hook, envSteps, predEval, call>>

\* the wrapped onMutate resumes after `await optimisticUpdate(...)`, calls the
\* caller's onMutate and resolves; the request is sent
AfterScan ==
    /\ mut.pc = "scanned"
    /\ LET f == FinishPhase("onMutate", MutateArgs(mut), hist)
           r == SendRequest(mut, f.h, f.ret)
       IN  mut' = r.m /\ hist' = r.h
    /\ UNCHANGED <<queries, qstate, cfg, hook, envSteps, predEval, call>>

\* the request completes: onSuccess then onSettled, or onSettled alone
NetworkDone(outcome) ==
    /\ mut.pc = "request"
    /\ LET m1 == [mut EXCEPT !.outcome = outcome]
           h1 == Append(hist, PlainEv("response", "-"))
           r == IF outcome = "success" THEN StartSuccess(m1, h1) ELSE StartSettled(m1, h1)
       IN  mut' = r.m /\ hist' = r.h
    /\ UNCHANGED <<queries, qstate, cfg, hook, envSteps, predEval, call>>

\* a wrapped phase resumes after `await getInvalidationPredicate(...)` and
\* calls invalidate(predicate)
InvalidateCall(phase) ==
    /\ mut.pc = (IF phase = "onSuccess" THEN "success_models" ELSE "settled_models")
    /\ LET variables == PhaseVariables(phase, mut)
           mutated == getMutatedModels(cfg.model, Operation, variables)
       IN  /\ \E logging \in BOOLEAN :
                  qstate' = Invalidated(qstate, Range(queries), mutated, logging)
           /\ mut' = [mut EXCEPT !.mutated = mutated,
                                 !.pc = IF phase = "onSuccess" THEN "success_invalidating"
                                        ELSE "settled_invalidating"]
           /\ hist' = Append(hist, Ev("invalidate", phase, NoKey, UndefData, NULL,
                                       <<VarsVal(variables)>>, UNDEF))
    /\ UNCHANGED <<queries, cfg, hook, envSteps, predEval, call>>

\* variant: a rejection of invalidate is caught and the phase goes on
InvalidateSettle_swallow(phase, ok) ==
    /\ mut.pc = (IF phase = "onSuccess" THEN "success_invalidating" ELSE "settled_invalidating")
    /\ LET h0 == Append(hist, PlainEv(IF ok THEN "invalidated" ELSE "rejected", phase))
           h1 == FinishPhase(phase, PhaseArgs(phase, mut), h0).h
           r == IF phase = "onSuccess" THEN StartSettled(mut, h1) ELSE Done(mut, h1)
       IN  mut' = r.m /\ hist' = r.h
    /\ UNCHANGED <<queries, qstate, cfg, hook, envSteps, predEval, call>>

\* `await invalidate(predicate)` settles: its promise resolves and the phase
\* calls the caller's hook and resolves, or its promise rejects and the phase
\* rejects
InvalidateSettle(phase, ok) ==
    /\ mut.pc = (IF phase = "onSuccess" THEN "success_invalidating" ELSE "settled_invalidating")
    /\ LET onFailurePath == mut.outcome # "success" \/ mut.failed
           h1 == IF ok
                 THEN FinishPhase(phase, PhaseArgs(phase, mut),
                                  Append(hist, PlainEv("invalidated", phase))).h
                 ELSE Append(Append(hist, PlainEv("rejected", phase)), ThrowEv(phase))
           m1 == IF ok THEN mut ELSE [mut EXCEPT !.failed = TRUE]
           r == IF phase = "onSuccess" \/ (~ok /\ ~onFailurePath)
                THEN StartSettled(m1, h1)
                ELSE Done(m1, h1)
       IN  mut' = r.m /\ hist' = r.h
    /\ UNCHANGED <<queries, qstate, cfg, hook, envSteps, predEval, call>>

Next ==
    \/ \E key \in CacheKeys : AddQuery(key)
    \/ \E key \in CacheKeys, data \in DefinedData : FetchSuccess(key, data)
    \/ \E key \in CacheKeys : FetchError(key)
    \/ \E key \in CacheKeys : RemoveQuery(key)
    \/ Render
    \/ \E variables \in MutationArgs : Mutate(variables)
    \/ ScanResume
    \/ AfterScan
    \/ \E outcome \in {"success", "error"} : NetworkDone(outcome)
    \/ \E phase \in {"onSuccess", "onSettled"} : InvalidateCall(phase)
    \/ \E phase \in {"onSuccess", "onSettled"}, ok \in BOOLEAN : InvalidateSettle(phase, ok)

Spec == Init /\ [][Next]_vars

(***************************************************************************)
(* The same program, started where queries are already cached when the     *)
(* mutation hook renders: each cached query holds fetched data and may     *)
(* have a refetch in flight.                                               *)
(***************************************************************************)
\* the opted-in queries, in the order they were cached
CachedQueries ==
    <<QueryKey("Post", "findMany", NoArgs, FALSE, TRUE),
      QueryKey("Post", "findMany", [kind |-> "object", include |-> {<<"author">>}], FALSE, TRUE)>>

\* what each of them fetched: an empty list
CachedData == [defined |-> TRUE, items |-> {}]

CachedInit ==
    /\ queries = CachedQueries
    /\ \E f \in [Range(CachedQueries) -> BOOLEAN] :
          qstate = [k \in CacheKeys |->
                       IF k \in Range(CachedQueries)
                       THEN [data |-> CachedData, error |-> NULL, fetching |-> f[k]]
                       ELSE NoQuery]
    /\ cfg \in {c \in Configs : /\ c.optimisticUpdate
                                /\ LastSegment(c.url) = "create"
                                /\ c.hooks = {"onMutate", "onSettled"}}
    /\ hook = RenderedHook(cfg, GetAll)
    /\ mut = IdleMut
    /\ hist = <<>>
    /\ envSteps = 0
    /\ predEval = NoEval
    /\ call = NoCall

CachedSpec == CachedInit /\ [][Next]_vars

(***************************************************************************)
(* The invalidation predicate on its own: getInvalidationPredicate has     *)
(* captured some mutatedModels and the predicate is applied to some query  *)
(* key, with or without logging.                                           *)
(***************************************************************************)
PredInputs ==
    {[mutated |-> m, key |-> k, logging |-> l, result |-> FALSE, logged |-> 0,
      scanned |-> FALSE, done |-> FALSE] :
        m \in SUBSET Models, k \in AllQueryKeys, l \in BOOLEAN}

PredInit ==
    /\ queries = <<>>
    /\ qstate = [k \in CacheKeys |-> NoQuery]
    /\ cfg = [model |-> "Post", url |-> <<"api", "model", "post", "create">>,
              hooks |-> {"onSuccess"}, invalidateQueries |-> TRUE,
              optimisticUpdate |-> FALSE]
    /\ hook = UnrenderedHook(cfg)
    /\ mut = IdleMut
    /\ hist = <<>>
    /\ envSteps = 0
    /\ predEval \in PredInputs
    /\ call = NoCall

EvalPredicate ==
    /\ ~predEval.done
    /\ LET p == InvalidationPredicate(predEval.mutated, predEval.key, predEval.logging)
       IN  predEval' = [predEval EXCEPT !.result = p.result, !.logged = p.logged,
                                        !.scanned = p.scanned, !.done = TRUE]
    /\ UNCHANGED <<queries, qstate, cfg, hook, mut, hist, envSteps, call>>

PredNext == EvalPredicate

PredSpec == PredInit /\ [][PredNext]_vars

(***************************************************************************)
(* The helpers on their own: the program variables stay as constructed.    *)
(***************************************************************************)
HelperInit ==
    /\ queries = <<>>
    /\ qstate = [k \in CacheKeys |-> NoQuery]
    /\ cfg = [model |-> "Post", url |-> <<"api", "model", "post", "create">>,
              hooks |-> {"onSuccess"}, invalidateQueries |-> TRUE,
              optimisticUpdate |-> FALSE]
    /\ hook = UnrenderedHook(cfg)
    /\ mut = IdleMut
    /\ hist = <<>>
    /\ envSteps = 0
    /\ predEval = NoEval

(***************************************************************************)
(* Values and JSON texts.  An object has the fields a, data, meta and      *)
(* error, each absent or holding a value; a Date is the one rich value.    *)
(***************************************************************************)
FieldNames == {"a", "data", "meta", "error"}

Absent == [t |-> "absent"]

Null == [t |-> "null"]

Num(n) == [t |-> "number", n |-> n]

Str(x) == [t |-> "string", s |-> x]

Date(x) == [t |-> "date", d |-> x]

\* { serialization: ... }: the paths of the rich values, <<>> being the root
MetaVal(paths) == [t |-> "meta", serialization |-> paths]

\* the error payload of a response
ErrorVal(prisma, code, reason) ==
    [t |-> "object", prisma |-> prisma, code |-> code, reason |-> reason]

\* JavaScript truthiness
TruthyVal(x) == x.t \notin {"absent", "null"} /\ x # Num(0)

EmptyObject == [f \in FieldNames |-> Absent]

\* a text: not JSON at all, the JSON text null, or a JSON object
Garbage == [form |-> "garbage", fields |-> EmptyObject]

NullText == [form |-> "null", fields |-> EmptyObject]

\* JSON.stringify of an object free of rich values
JSONStringify(object) == [form |-> "object", fields |-> object]

\* JSON.parse: throws on a text that is not JSON
JSONParse(text) ==
    [threw |-> text.form = "garbage", null |-> text.form = "null", object |-> text.fields]

(***************************************************************************)
(* serialize and deserialize (runtime/browser): a Date is carried as its   *)
(* ISO string, and the metadata lists the paths of the Dates.              *)
(***************************************************************************)
serialize(value) ==
    LET rich == {f \in FieldNames : value[f].t = "date"}
    IN  [data |-> [f \in FieldNames |-> IF f \in rich THEN Str(value[f].d) ELSE value[f]],
         meta |-> IF rich = {} THEN Absent ELSE MetaVal({<<f>> : f \in rich})]

\* deserialize of a value that is not an object: the root path restores it,
\* a path into it cannot be followed
deserialize(data, serialization) ==
    IF \E path \in serialization : path # <<>>
    THEN [threw |-> TRUE, value |-> data]
    ELSE IF <<>> \in serialization /\ data.t = "string"
         THEN [threw |-> FALSE, value |-> Date(data.s)]
         ELSE [threw |-> FALSE, value |-> data]

\* variant: the metadata is attached even when there is none
marshal_alwaysMeta(value) ==
    LET s == serialize(value)
    IN  JSONStringify([s.data EXCEPT !["meta"] = MetaVal({})])

marshal(value) ==
    LET s == serialize(value)
    IN  IF s.meta # Absent
        THEN JSONStringify([s.data EXCEPT !["meta"] = MetaVal(s.meta.serialization)])
        ELSE JSONStringify(s.data)

\* parsed.data of null throws as JSON.parse of a text that is not JSON does
unmarshal(value) ==
    LET parsed == JSONParse(value)
    IN  IF parsed.threw \/ parsed.null
        THEN [threw |-> TRUE, value |-> EmptyObject]
        ELSE IF TruthyVal(parsed.object["data"]) /\ parsed.object["meta"].t = "meta"
             THEN LET d == deserialize(parsed.object["data"],
                                       parsed.object["meta"].serialization)
                  IN  IF d.threw
                      THEN [threw |-> TRUE, value |-> EmptyObject]
                      ELSE [threw |-> FALSE,
                            value |-> [parsed.object EXCEPT !["data"] = d.value]]
             ELSE [threw |-> FALSE, value |-> parsed.object]

(***************************************************************************)
(* fetcher: the response and what the returned promise settles to.         *)
(***************************************************************************)
ErrorPayloads ==
    {ErrorVal(p, c, r) : p \in BOOLEAN, c \in {"P2004", "P2025"},
                         r \in {"RESULT_NOT_READABLE", UNDEF}}

\* the body of a response: an error envelope, a data envelope (the data
\* absent, falsy, plain or a serialized Date; the metadata absent, fitting
\* or not), or a text that is no envelope
ResponseBodies ==
    {Garbage, NullText}
    \cup {JSONStringify([EmptyObject EXCEPT !["error"] = e]) : e \in ErrorPayloads}
    \cup {JSONStringify([EmptyObject EXCEPT !["data"] = d, !["meta"] = m]) :
            d \in {Absent, Num(0), Str("2020-01-01")},
            m \in {Absent, MetaVal({<<>>}), MetaVal({<<"a">>})}}

Responses == [status : {200, 403, 500}, body : ResponseBodies]

\* res.ok
Ok(res) == res.status \in 200..299

Resolved(value) ==
    [outcome |-> "resolved", value |-> value, thrown |-> "none", info |-> Absent,
     status |-> {}, logged |-> FALSE]

\* the promise rejects with the error thrown; logged: console.error was
\* called with the raw text
Rejected(thrown, info, status, logged) ==
    [outcome |-> "rejected", value |-> Absent, thrown |-> thrown, info |-> info,
     status |-> status, logged |-> logged]

\* variant: a body carrying an error is taken for a failure whatever the status
fetcher_errorBodyFails(res, checkReadBack) ==
    LET u == unmarshal(res.body)
    IN  IF u.threw
        THEN Rejected("deserialization", Absent, {}, Ok(res))
        ELSE IF ~Ok(res) \/ u.value["error"] # Absent
             THEN LET e == u.value["error"]
                  IN  IF /\ checkReadBack # "false"
                         /\ e.t = "object" /\ e.prisma
                         /\ e.code = "P2004" /\ e.reason = "RESULT_NOT_READABLE"
                      THEN Resolved(Absent)
                      ELSE Rejected("Error", e, {res.status}, FALSE)
             ELSE Resolved(u.value["data"])

\* variant: the read-back check is made whatever checkReadBack is
fetcher_alwaysCheck(res, checkReadBack) ==
    LET u == unmarshal(res.body)
    IN  IF ~Ok(res)
        THEN IF u.threw
             THEN Rejected("deserialization", Absent, {}, FALSE)
             ELSE LET e == u.value["error"]
                  IN  IF /\ e.t = "object" /\ e.prisma
                         /\ e.code = "P2004" /\ e.reason = "RESULT_NOT_READABLE"
                      THEN Resolved(Absent)
                      ELSE Rejected("Error", e, {res.status}, FALSE)
        ELSE IF u.threw
             THEN Rejected("deserialization", Absent, {}, TRUE)
             ELSE Resolved(u.value["data"])

\* fetcher(url, options, fetch, checkReadBack), res being what fetch gave.
\* On a response that is not ok the body is unmarshalled outside any try; on
\* an ok response a failure of unmarshal is logged with the text and rethrown.
fetcher(res, checkReadBack) ==
    LET u == unmarshal(res.body)
    IN  IF ~Ok(res)
        THEN IF u.threw
             THEN Rejected("deserialization", Absent, {}, FALSE)
             ELSE LET e == u.value["error"]
                  IN  IF /\ checkReadBack # "false"
                         /\ e.t = "object" /\ e.prisma
                         /\ e.code = "P2004" /\ e.reason = "RESULT_NOT_READABLE"
                      THEN Resolved(Absent)
                      ELSE Rejected("Error", e, {res.status}, FALSE)
        ELSE IF u.threw
             THEN Rejected("deserialization", Absent, {}, TRUE)
             ELSE Resolved(u.value["data"])

\* who calls fetcher: useModelQuery (a GET, checkReadBack false) and the
\* mutationFn of useModelMutation (the method and checkReadBack of the hook)
FetcherCalls ==
    {[method |-> "GET", checkReadBack |-> "false"]}
    \cup [method : {"POST", "PUT", "DELETE"}, checkReadBack : {UNDEF, "true", "false"}]

FetchInit ==
    /\ HelperInit
    /\ \E c \in FetcherCalls, res \in Responses :
          call = [fn |-> "fetcher", method |-> c.method, checkReadBack |-> c.checkReadBack,
                  res |-> res, done |-> FALSE, out |-> Resolved(Absent)]

\* the promise of fetcher settles
Fetcher ==
    /\ call.fn = "fetcher" /\ ~call.done
    /\ call' = [call EXCEPT !.done = TRUE, !.out = fetcher(call.res, call.checkReadBack)]
    /\ UNCHANGED <<queries, qstate, cfg, hook, mut, hist, envSteps, predEval>>

FetchNext == Fetcher

FetchSpec == FetchInit /\ [][FetchNext]_vars

(***************************************************************************)
(* getQueryKey.  A string is held as the segments that split('/') gives:   *)
(* the empty string is the one empty segment.                              *)
(***************************************************************************)
EmptyString == <<"">>

\* an operation name, a request URL, a URL ending in '/', and the empty string
UrlOrOperations ==
    {EmptyString,
     <<"findMany">>,
     <<"", "api", "model", "post", "findMany">>,
     <<"", "api", "model", "post", "">>}

KeyModels == {"", "Post", "User"}

getQueryKey(model, urlOrOperation, args, infinite, optimisticUpdate) ==
    IF urlOrOperation = EmptyString
    THEN [threw |-> TRUE, key |-> NoKey]
    ELSE [threw |-> FALSE,
          key |-> QueryKey(model, LastSegment(urlOrOperation), args, infinite,
                           optimisticUpdate)]

KeyInit ==
    /\ HelperInit
    /\ \E model \in KeyModels, urlOrOperation \in UrlOrOperations, args \in QueryArgs,
          infinite \in BOOLEAN, optimisticUpdate \in BOOLEAN :
          call = [fn |-> "getQueryKey", model |-> model, urlOrOperation |-> urlOrOperation,
                  args |-> args, infinite |-> infinite,
                  optimisticUpdate |-> optimisticUpdate,
                  done |-> FALSE, out |-> [threw |-> FALSE, key |-> NoKey]]

\* getQueryKey returns or throws
GetQueryKey ==
    /\ call.fn = "getQueryKey" /\ ~call.done
    /\ call' = [call EXCEPT !.done = TRUE,
                            !.out = getQueryKey(call.model, call.urlOrOperation, call.args,
                                                call.infinite, call.optimisticUpdate)]
    /\ UNCHANGED <<queries, qstate, cfg, hook, mut, hist, envSteps, predEval>>

KeyNext == GetQueryKey

KeySpec == KeyInit /\ [][KeyNext]_vars

(***************************************************************************)
(* marshal followed by unmarshal.                                          *)
(***************************************************************************)
\* the values marshalled: objects whose fields a and data are absent, null,
\* a number, a string or a Date, and whose field meta is absent, a string or
\* serialization metadata
MarshalValues ==
    {[EmptyObject EXCEPT !["a"] = a, !["data"] = d, !["meta"] = m] :
        a \in {Absent, Null, Num(0), Num(1), Str("s"), Date("2020-01-01")},
        d \in {Absent, Null, Num(0), Num(1), Str("2020-01-01"), Date("2020-01-01")},
        m \in {Absent, Str("s"), MetaVal({<<>>})}}

MarshalInit ==
    /\ HelperInit
    /\ \E x \in MarshalValues :
          call = [fn |-> "marshal", x |-> x, done |-> FALSE,
                  out |-> [threw |-> FALSE, value |-> EmptyObject]]

\* unmarshal(marshal(x))
RoundTrip ==
    /\ call.fn = "marshal" /\ ~call.done
    /\ call' = [call EXCEPT !.done = TRUE, !.out = unmarshal(marshal(call.x))]
    /\ UNCHANGED <<queries, qstate, cfg, hook, mut, hist, envSteps, predEval>>

MarshalNext == RoundTrip

MarshalSpec == MarshalInit /\ [][MarshalNext]_vars





(***************************************************************************)
(* Properties of the invalidation predicate (under PredSpec).              *)
(***************************************************************************)

\* C1: whenever the root model of the query key is one of the mutated
\* models, the predicate returns true, whatever the operation, args and
\* flags of the key.
C1_DirectMatchInvalidates ==
    (predEval.done /\ predEval.key.model \in predEval.mutated) => predEval.result

C1_Witness ==
    /\ predEval.done
    /\ predEval.key.model \in predEval.mutated
    /\ predEval.key.args.kind = "null"
    /\ predEval.key.infinite /\ ~predEval.key.optimisticUpdate
    /\ predEval.result

\* C2: for a key whose args are falsy (undefined, null, false) the predicate
\* returns true exactly when the root model is a mutated model, and the
\* nested-read scanner is not consulted.
C2_NoArgsOnlyDirect ==
    (predEval.done /\ ~Truthy(predEval.key.args)) =>
        /\ predEval.result <=> (predEval.key.model \in predEval.mutated)
        /\ ~predEval.scanned

C2_Witness ==
    /\ predEval.done
    /\ predEval.key.args.kind = "undefined"
    /\ predEval.key.model = "User"
    /\ predEval.mutated = {"Post"}
    /\ ~predEval.result

\* C3: for a key whose root model is not mutated and whose args are present,
\* the predicate returns true exactly when the models the query reads
\* (getReadModels of its model and args) share a model with the mutated set.
C3_NestedReadDecides ==
    (predEval.done /\ predEval.key.model \notin predEval.mutated /\ Truthy(predEval.key.args)) =>
        (predEval.result <=>
            (getReadModels(predEval.key.model, predEval.key.args) \cap predEval.mutated # {}))

C3_Witness ==
    /\ predEval.done
    /\ predEval.key.model = "User"
    /\ predEval.key.args = [kind |-> "object", include |-> {<<"posts">>}]
    /\ predEval.mutated = {"Post", "Tag"}
    /\ predEval.result /\ predEval.scanned

\* C4: the predicate is pure: the boolean it returns for a mutated-model set
\* and a key is the one it returns with logging switched the other way, and
\* evaluating it changes neither the cache, nor the record of invalidate and
\* setCache calls, nor the mutated-model set it captured.
C4_PredicatePure ==
    /\ [](predEval.done =>
            predEval.result =
                InvalidationPredicate(predEval.mutated, predEval.key, ~predEval.logging).result)
    /\ [][/\ predEval'.mutated = predEval.mutated
          /\ predEval'.key = predEval.key
          /\ UNCHANGED <<queries, qstate, hist, mut>>]_vars

C4_Witness ==
    /\ predEval.done
    /\ predEval.logging /\ predEval.logged = 1
    /\ predEval.result
    /\ predEval.key.model \notin predEval.mutated


(***************************************************************************)
(* Properties of the optimistic update scan and of the lifecycle           *)
(* (under Spec).                                                           *)
(***************************************************************************)
HistIdx == DOMAIN hist

EventsOf(evs, key) == {i \in HistIdx : hist[i].ev \in evs /\ hist[i].key = key}

\* a step of the scan: the mutation is invoked, or the scan resumes
ScanStep ==
    \/ mut.pc = "idle" /\ mut'.pc # "idle"
    \/ mut.pc = "scan" /\ (mut'.pc # "scan" \/ mut'.idx # mut.idx)

\* C5: an entry that holds an error when the scan visits it is not passed to
\* applyMutation and setCache is not called for its key; the scan leaves the
\* data and the error of an entry holding an error as they were.
C5_ErrorEntriesSkipped ==
    /\ [](/\ \A i \in HistIdx : hist[i].ev = "merge" => hist[i].err = NULL
          /\ \A i \in HistIdx :
                hist[i].ev = "skipError" => EventsOf({"merge", "setCache"}, hist[i].key) = {})
    /\ [][ScanStep =>
            \A i \in DOMAIN mut.scan :
                (/\ mut.scan[i].live
                 /\ qstate[mut.scan[i].key].error # NULL
                 /\ ~(mut.pc = "scan" /\ i = mut.idx)) =>
                    qstate'[mut.scan[i].key] = qstate[mut.scan[i].key]]_vars

C5_Witness ==
    /\ mut.pc = "request"
    /\ \E i \in HistIdx :
          /\ hist[i].ev = "skipError"
          /\ hist[i].key.optimisticUpdate
          /\ Present(hist[i].key)
          /\ qstate[hist[i].key].error = "Error"

\* C6: an entry whose key has optimisticUpdate = false is skipped by the
\* scan: applyMutation is not invoked for it, setCache is not called for its
\* key, and the scan leaves its cached state as it was.
C6_OptOutEntriesSkipped ==
    /\ [](\A i \in HistIdx :
              hist[i].ev \in {"merge", "setCache"} => hist[i].key.optimisticUpdate)
    /\ [][ScanStep =>
            \A k \in CacheKeys : ~k.optimisticUpdate => qstate'[k] = qstate[k]]_vars

C6_Witness ==
    /\ mut.pc = "request"
    /\ \E i \in HistIdx :
          /\ hist[i].ev = "skipOptOut"
          /\ hist[i].data = [defined |-> TRUE, items |-> {}]
          /\ Operation = "create"
          /\ qstate[hist[i].key].data = hist[i].data

\* C7: when the merge of an eligible entry gives a value, setCache is called
\* once, with the entry's key and that value, the cache then holds exactly
\* that value for the key, and no other key is written; when the merge gives
\* undefined, setCache is not called and the cache is unchanged.
C7_MergedValueReplaces ==
    /\ [][(mut.pc = "scan" /\ (mut'.pc # "scan" \/ mut'.idx # mut.idx)) =>
            LET k == mut.scan[mut.idx].key
                writes == {i \in DOMAIN hist' : hist'[i].ev = "setCache" /\ hist'[i].key = k}
            IN  /\ \A k2 \in CacheKeys \ {k} : qstate'[k2] = qstate[k2]
                /\ IF mut.pending.defined
                   THEN /\ k \in Range(queries')
                        /\ qstate'[k].data = mut.pending
                        /\ Cardinality(writes) = 1
                        /\ \A i \in writes : hist'[i].data = mut.pending
                   ELSE /\ qstate'[k] = qstate[k]
                        /\ queries' = queries
                        /\ writes = {}]_vars
    /\ [](\A i \in HistIdx :
              hist[i].ev = "merge" =>
                  LET merged == applyMutation(hist[i].key.model, hist[i].key.operation,
                                    hist[i].data, cfg.model, Operation, mut.variables)
                      writes == EventsOf({"setCache"}, hist[i].key)
                  IN  /\ Cardinality(writes) <= 1
                      /\ \A j \in writes : j > i /\ hist[j].data = merged /\ merged.defined
                      /\ (mut.pc = "request" /\ merged.defined) => writes # {})

C7_Witness ==
    /\ mut.pc = "request"
    /\ Operation = "delete"
    /\ \E i, j \in HistIdx :
          /\ hist[i].ev = "setCache" /\ hist[i].data = [defined |-> TRUE, items |-> {}]
          /\ qstate[hist[i].key].data = hist[i].data
          /\ hist[j].ev = "merge" /\ EventsOf({"setCache"}, hist[j].key) = {}

\* the phases the wrappers are installed on
Wrapped(phase) ==
    IF phase = "onSuccess" THEN InvalidationInstalled ELSE OptimisticInstalled

\* the last call of the wrapped phase before position i
LastCall(phase, i) ==
    {j \in HistIdx :
        /\ j < i /\ hist[j].ev = "call" /\ hist[j].phase = phase
        /\ \A l \in HistIdx : (l > j /\ l < i) => ~(hist[l].ev = "call" /\ hist[l].phase = phase)}

\* C8: in a wrapped phase the caller's hook, if supplied, is called with the
\* phase's arguments after the phase's own logic is over (the scan, or the
\* awaited invalidation), the phase returns what the hook returned, and it
\* returns undefined when no hook was supplied.
C8_OriginalHookChained ==
    /\ \A i \in HistIdx :
          (hist[i].ev = "orig" /\ Wrapped(hist[i].phase)) =>
              LET p == hist[i].phase
              IN  /\ LastCall(p, i) # {}
                  /\ \A c \in LastCall(p, i) :
                        /\ hist[c].args = hist[i].args
                        /\ (p = "onSuccess" \/ SettleInvalidate) /\ p # "onMutate" =>
                              \E j \in HistIdx :
                                  j > c /\ j < i /\ hist[j].ev = "invalidated" /\ hist[j].phase = p
                  /\ p = "onMutate" =>
                        /\ mut.pc \notin {"scan", "scanned"}
                        /\ \A j \in HistIdx :
                              hist[j].ev \in {"merge", "setCache", "skipError", "skipOptOut"} => j < i
                  /\ i < Len(hist) /\ hist[i + 1] = ReturnEv(p, HookReturn(p))
    /\ \A i \in HistIdx :
          hist[i].ev = "return" =>
              /\ Wrapped(hist[i].phase)
              /\ IF hist[i].phase \in cfg.hooks
                 THEN /\ hist[i].ret = HookReturn(hist[i].phase)
                      /\ i > 1 /\ hist[i - 1].ev = "orig" /\ hist[i - 1].phase = hist[i].phase
                 ELSE hist[i].ret = UNDEF
    /\ (mut.pc \notin {"idle", "scan", "scanned"} /\ OptimisticInstalled) =>
          mut.context = (IF "onMutate" \in cfg.hooks THEN HookReturn("onMutate") ELSE UNDEF)

C8_Witness ==
    /\ mut.pc = "done"
    /\ \E i, j, l \in HistIdx :
          /\ hist[i].ev = "orig" /\ hist[i].phase = "onSettled"
          /\ hist[Len(hist)] = ReturnEv("onSettled", "settledResult")
          /\ hist[j].ev = "orig" /\ hist[j].phase = "onMutate"
          /\ hist[l].ev = "setCache" /\ l < j
    /\ \E i \in HistIdx : hist[i].ev = "invalidated" /\ hist[i].phase = "onSettled"

\* C9: every optimistic cache write comes before the request is sent, hence
\* before its response; every invalidate call comes after the response.
C9_WritesBeforeInvalidateAfter ==
    /\ \A i \in HistIdx :
          hist[i].ev = "setCache" =>
              \A j \in HistIdx : hist[j].ev \in {"request", "response"} => i < j
    /\ \A i \in HistIdx :
          hist[i].ev = "invalidate" =>
              \E j \in HistIdx : j < i /\ hist[j].ev = "response"

C9_Witness ==
    /\ mut.pc = "done"
    /\ \E i, j, l \in HistIdx :
          /\ hist[i].ev = "setCache" /\ hist[j].ev = "response" /\ hist[l].ev = "invalidate"
          /\ i < j /\ j < l

\* C10: the entry list scanned by the before-send phase is the entry list of
\* the cache at the moment the mutation is invoked.
C10_ScansCurrentCache ==
    [][(mut.pc = "idle" /\ mut'.pc # "idle" /\ OptimisticInstalled) => mut'.scan = GetAll]_vars


(***************************************************************************)
(* The scan and the other tasks of the event loop.                         *)
(***************************************************************************)
\* a step of another task: a query mounts, its fetch settles, it is evicted
EnvStep == envSteps' # envSteps

\* the scan is suspended between the patching of one entry and the patching
\* of the next: an entry has been written and a merged value awaits setCache
PartlyPatched ==
    /\ mut.pc = "scan"
    /\ mut.pending.defined
    /\ \E i \in HistIdx : hist[i].ev = "setCache"

\* C11: no other task runs between the patching of one entry and the
\* patching of the next, so none sees the cache with only a part of the
\* applicable entries carrying the optimistic value.
C11_ScanWithoutYield == [][EnvStep => ~PartlyPatched]_vars

(***************************************************************************)
(* The optimistic write and the fetch in flight.  cancelQueries matches    *)
(* queries by a partial key; among the keys cached here it matches the     *)
(* written key alone.                                                      *)
(***************************************************************************)
\* the setCache events added by the step
NewWrites == {i \in DOMAIN hist' : i > Len(hist) /\ hist'[i].ev = "setCache"}

\* the step calls invalidate(predicate)
InvalidateStep == \E i \in DOMAIN hist' : i > Len(hist) /\ hist'[i].ev = "invalidate"

\* the query of the key holds the value, in the cache, with no fetch in flight
Holds(key, data) ==
    /\ Present(key)
    /\ qstate[key].data = data
    /\ ~qstate[key].fetching

Segment(c) ==
    LET later == {d \in HistIdx : d > c /\ hist[d].ev = "call"}
    IN  IF later = {}
        THEN (c + 1)..Len(hist)
        ELSE (c + 1)..((CHOOSE d \in later : \A e \in later : d <= e) - 1)

SettledCalls == {c \in HistIdx : hist[c].ev = "call" /\ hist[c].phase = "onSettled"}

\* the run of the wrapped phase called at c is over: it returned or it threw
PhaseOver(c) == \E i \in Segment(c) : hist[i].ev \in {"return", "throw"}

\* invalidate was called in the run and its promise resolved before i
InvalidatedBefore(c, i) ==
    \E j, k \in Segment(c) :
        /\ j < k /\ k < i
        /\ hist[j].ev = "invalidate"
        /\ hist[k].ev = "invalidated"

\* the wrapped onSettled invalidates exactly when invalidate was supplied
SettleInvalidatesIff(c) ==
    /\ (\E i \in Segment(c) : hist[i].ev = "invalidate") => SettleInvalidate
    /\ (PhaseOver(c) /\ SettleInvalidate) => \E i \in Segment(c) : hist[i].ev = "invalidate"

\* C13 as stated: the wrapped onSettled computes and awaits the invalidation
\* exactly when invalidate was supplied, whatever the outcome of the
\* mutation, and in either case the caller's onSettled is then invoked.
C13_SettleThenHookAlways ==
    \A c \in SettledCalls :
        /\ SettleInvalidatesIff(c)
        /\ (PhaseOver(c) /\ "onSettled" \in cfg.hooks) =>
               \E i \in Segment(c) :
                   /\ hist[i].ev = "orig"
                   /\ SettleInvalidate => InvalidatedBefore(c, i)

\* C13: the wrapped onSettled computes and awaits the invalidation exactly
\* when invalidate was supplied, whatever the outcome of the mutation; the
\* caller's onSettled is then invoked, after the invalidation resolved,
\* unless the invalidation rejected: then the phase rejects and the caller's
\* onSettled is not invoked.
C13_SettleThenHook ==
    \A c \in SettledCalls :
        /\ SettleInvalidatesIff(c)
        /\ (PhaseOver(c) /\ "onSettled" \in cfg.hooks) =>
               \/ \E i \in Segment(c) :
                     /\ hist[i].ev = "orig"
                     /\ SettleInvalidate => InvalidatedBefore(c, i)
                     /\ \A j \in Segment(c) : hist[j].ev # "throw"
               \/ /\ \E i \in Segment(c) : hist[i].ev = "throw"
                  /\ \A i \in Segment(c) : hist[i].ev # "orig"

\* the mutation failed, the wrapped onSettled invalidated and then invoked
\* the caller's onSettled
C13_Witness ==
    /\ mut.pc = "done"
    /\ mut.outcome = "error"
    /\ \E c \in SettledCalls, i \in HistIdx :
          /\ i \in Segment(c)
          /\ hist[i].ev = "orig"
          /\ InvalidatedBefore(c, i)

(***************************************************************************)
(* A rejection of invalidate in a wrapped onSuccess or onSettled.          *)
(***************************************************************************)
PhaseCalls == {c \in HistIdx : hist[c].ev = "call" /\ hist[c].phase \in {"onSuccess", "onSettled"}}

\* C14: when invalidate rejects in the wrapped onSuccess or onSettled, the
\* phase rejects at once: the caller's hook of the phase is not invoked and
\* the phase returns nothing; the mutation takes its failure path (any phase
\* called afterwards is onSettled with the error) and ends rejected.
C14_RejectionPropagates ==
    \A c \in PhaseCalls : \A i \in Segment(c) :
        hist[i].ev = "rejected" =>
            /\ hist[i].phase = hist[c].phase
            /\ i + 1 \in Segment(c)
            /\ hist[i + 1] = ThrowEv(hist[c].phase)
            /\ \A j \in Segment(c) :
                  ~(hist[j].phase = hist[c].phase /\ hist[j].ev \in {"orig", "return"})
            /\ mut.failed
            /\ \A d \in PhaseCalls :
                  d > i => /\ hist[d].phase = "onSettled"
                           /\ hist[d].args[1] = StrVal(UNDEF)
                           /\ hist[d].args[2] = StrVal("error")

\* invalidate rejected in the wrapped onSuccess of a mutation whose caller
\* supplied an onSuccess hook, and the mutation is over
C14_Witness ==
    /\ mut.pc = "done"
    /\ "onSuccess" \in cfg.hooks
    /\ \E i \in HistIdx : hist[i].ev = "rejected" /\ hist[i].phase = "onSuccess"

(***************************************************************************)
(* The variables of the three wrapped phases.                              *)
(***************************************************************************)
\* where the mutation passes its variables in the arguments of a phase
VariablesAt(phase) ==
    CASE phase = "onMutate" -> 1
      [] phase = "onSuccess" -> 2
      [] OTHER -> 3

WrappedCalls == {c \in HistIdx : hist[c].ev = "call"}

\* C20: in one invocation of the mutation, the variables that the wrapped
\* onMutate merges with (its first argument), the wrapped onSuccess builds
\* its predicate from (its second argument) and the wrapped onSettled builds
\* its predicate from (its third argument) are the value mutate was invoked
\* with; every invalidation of the invocation computes the mutated models
\* from it, so onSuccess and onSettled compute the same set.
C20_SameVariables ==
    /\ [](\A c \in WrappedCalls :
            /\ hist[c].args[VariablesAt(hist[c].phase)] = VarsVal(mut.variables)
            /\ \A i \in Segment(c) :
                  hist[i].ev \in {"merge", "invalidate"} =>
                      /\ hist[i].phase = hist[c].phase
                      /\ hist[i].args = <<hist[c].args[VariablesAt(hist[c].phase)]>>)
    /\ [][InvalidateStep =>
            /\ mut'.mutated = getMutatedModels(cfg.model, Operation, mut.variables)
            /\ (\E i \in HistIdx : hist[i].ev = "invalidate") => mut'.mutated = mut.mutated]_vars

\* a mutation writing through a relation has merged before its request and
\* invalidated in onSuccess and again in onSettled
C20_Witness ==
    /\ mut.pc = "done"
    /\ mut.variables.nested # {}
    /\ \E i, j, k \in HistIdx :
          /\ hist[i].ev = "merge"
          /\ hist[j].ev = "invalidate" /\ hist[j].phase = "onSuccess"
          /\ hist[k].ev = "invalidate" /\ hist[k].phase = "onSettled"

(***************************************************************************)
(* fetcher and the response it is given.                                   *)
(***************************************************************************)
\* the error payload of the body of the response
Payload == call.res.body.fields["error"]

\* the body is the policy-denied envelope
PolicyDenied ==
    /\ call.res.body.form = "object"
    /\ Payload.t = "object"
    /\ Payload.prisma
    /\ Payload.code = "P2004"
    /\ Payload.reason = "RESULT_NOT_READABLE"

\* the two outcomes of a response that is not ok
DeniedOrError ==
    IF PolicyDenied /\ call.checkReadBack # "false"
    THEN call.out = Resolved(Absent)
    ELSE /\ call.out.outcome = "rejected"
         /\ call.out.thrown = "Error"
         /\ call.out.info = Payload
         /\ call.out.status = {call.res.status}

\* C15 as stated: a response that is not ok has exactly two outcomes: the
\* policy-denied envelope with checkReadBack not false resolves to undefined,
\* everything else rejects with an error carrying the payload and the status.
C15_TwoOutcomesAlways ==
    (call.fn = "fetcher" /\ call.done /\ ~Ok(call.res)) => DeniedOrError

\* C15: a response that is not ok and whose body unmarshals has exactly two
\* outcomes: the policy-denied envelope with checkReadBack not false resolves
\* to undefined, everything else (that envelope with checkReadBack false
\* included) rejects with an error carrying the payload and the status; when
\* the body does not unmarshal, fetcher rejects with the failure of
\* unmarshal, which carries neither.
C15_TwoOutcomes ==
    (call.fn = "fetcher" /\ call.done /\ ~Ok(call.res)) =>
        IF unmarshal(call.res.body).threw
        THEN /\ call.out.outcome = "rejected"
             /\ call.out.thrown = "deserialization"
             /\ call.out.info = Absent
             /\ call.out.status = {}
        ELSE DeniedOrError

\* the policy-denied envelope came with status 403 to a call with
\* checkReadBack false, and fetcher rejected
C15_Witness ==
    /\ call.fn = "fetcher" /\ call.done
    /\ call.res.status = 403
    /\ PolicyDenied
    /\ call.checkReadBack = "false"
    /\ call.out.outcome = "rejected"

\* C16: a DELETE mutation that checks read-back by default and receives a
\* response of status 200 whose body carries the error code P2004 with the
\* reason RESULT_NOT_READABLE resolves to undefined and does not throw.
C16_DeleteReadBackDenied ==
    (/\ call.fn = "fetcher" /\ call.done
     /\ call.method = "DELETE"
     /\ call.checkReadBack # "false"
     /\ call.res.status = 200
     /\ call.res.body.form = "object"
     /\ Payload.t = "object"
     /\ Payload.code = "P2004"
     /\ Payload.reason = "RESULT_NOT_READABLE")
        => call.out = Resolved(Absent)

\* such a DELETE, with checkReadBack left undefined, has settled
C16_Witness ==
    /\ call.fn = "fetcher" /\ call.done
    /\ call.method = "DELETE"
    /\ call.checkReadBack = UNDEF
    /\ call.res.status = 200
    /\ PolicyDenied
    /\ call.out.outcome = "resolved"

\* C17: whenever the body of the response fails to parse or to deserialize,
\* ok or not, the failure is logged with the raw text and raised again:
\* fetcher does not resolve.
C17_FailureLoggedAndRaised ==
    (call.fn = "fetcher" /\ call.done /\ unmarshal(call.res.body).threw) =>
        /\ call.out.outcome = "rejected"
        /\ call.out.logged

(***************************************************************************)
(* getQueryKey and the key it returns.                                     *)
(***************************************************************************)
\* C18: every key getQueryKey returns has a model and an operation that are
\* not empty, and getQueryKey fails for every input from which no operation
\* name can be derived: the empty urlOrOperation, or a URL whose last segment
\* is empty.
C18_KeyHasModelAndOperation ==
    (call.fn = "getQueryKey" /\ call.done) =>
        /\ ~call.out.threw => (call.out.key.model # "" /\ call.out.key.operation # "")
        /\ LastSegment(call.urlOrOperation) = "" => call.out.threw

(***************************************************************************)
(* marshal and unmarshal as a round trip.                                  *)
(***************************************************************************)
\* serialize gives metadata for the value
HasMetadata(x) == serialize(x).meta # Absent

\* the value has the shape of a response envelope
Envelope(x) == TruthyVal(x["data"]) /\ x["meta"].t = "meta"

InvalidateCalls == {i \in HistIdx : hist[i].ev = "invalidate"}

\* the number of calls the configuration and the outcome of the request fix
ExpectedInvalidations ==
    CASE ~cfg.invalidateQueries -> 0
      [] cfg.invalidateQueries /\ ~cfg.optimisticUpdate ->
            IF mut.outcome = "success" THEN 1 ELSE 0
      [] OTHER -> IF mut.outcome = "success" THEN 2 ELSE 1

\* the wrapped onSettled rejected on the success path, after a wrapped
\* onSuccess that resolved: the mutation calls onSettled again, with the error
SettledTwice ==
    /\ Cardinality(SettledCalls) = 2
    /\ \A i \in HistIdx : ~(hist[i].ev = "rejected" /\ hist[i].phase = "onSuccess")

WrapperKinds == {"setupInvalidation", "setupOptimisticUpdate"}

\* the hooks each setup function assigns
Owns(by) == IF by = "setupInvalidation" THEN {"onSuccess"} ELSE {"onMutate", "onSettled"}

\* the calls of the caller's hook of the phase in the run called at c
OrigCalls(c) ==
    {i \in Segment(c) : hist[i].ev = "orig" /\ hist[i].phase = hist[c].phase}

\* every slot of finalOptions holds what the caller supplied, or a wrapper
\* of the function that owns the slot around what the caller supplied; the
\* wrappers are there exactly when the url gives an operation name and the
\* function's flag is set; the caller's object holds what the caller supplied
WrappersOwnSlots ==
    /\ hook.heap.options = CallerOptions(cfg)
    /\ hook.rendered =>
          /\ \A p \in HookNames :
                LET slot == hook.heap.finalOptions[p]
                IN  \/ slot = hook.heap.options[p]
                    \/ /\ slot.kind \in WrapperKinds
                       /\ p \in Owns(slot.kind)
                       /\ slot.orig = hook.heap.options[p].kind
          /\ \A p \in HookNames :
                (hook.heap.finalOptions[p].kind \in WrapperKinds) <=> Wrapped(p)
    /\ \A i \in HistIdx :
          /\ hist[i].ev = "call" => hook.heap.finalOptions[hist[i].phase].kind \in WrapperKinds
          /\ hist[i].ev = "orig" => hook.heap.options[hist[i].phase].kind = "caller"

\* C22 as stated: the wrappers replace only the hooks they own, the caller's
\* options object is not modified, and with both wrappers installed every
\* run of a phase that is over has called the caller's hook of the phase
\* exactly once.
C22_HookOncePerPhaseAlways ==
    /\ WrappersOwnSlots
    /\ (InvalidationInstalled /\ OptimisticInstalled) =>
          \A c \in WrappedCalls :
              (PhaseOver(c) /\ hist[c].phase \in cfg.hooks) => Cardinality(OrigCalls(c)) = 1

\* C22: setupInvalidation replaces onSuccess only and setupOptimisticUpdate
\* replaces onMutate and onSettled only, each around the hook the caller
\* supplied; the options object the caller passed is not modified; and in
\* every run of a wrapped phase the caller's hook is called at most once:
\* exactly once when the run returned and the caller supplied the hook, not
\* at all when the run rejected (its awaited invalidation rejected) or no
\* hook was supplied.
C22_HookOncePerPhase ==
    /\ WrappersOwnSlots
    /\ \A c \in WrappedCalls :
          /\ Cardinality(OrigCalls(c)) <= 1
          /\ PhaseOver(c) =>
                Cardinality(OrigCalls(c)) =
                    (IF /\ hist[c].phase \in cfg.hooks
                        /\ \E i \in Segment(c) :
                              hist[i].ev = "return" /\ hist[i].phase = hist[c].phase
                     THEN 1 ELSE 0)

\* both wrappers are installed around the caller's onMutate and onSettled,
\* the mutation is over and each of the two hooks was called in a run of its
\* wrapped phase
C22_Witness ==
    /\ mut.pc = "done"
    /\ InvalidationInstalled /\ OptimisticInstalled
    /\ hook.heap.finalOptions["onSuccess"] = WrapperHook("setupInvalidation", NoHook)
    /\ hook.heap.finalOptions["onSettled"] = WrapperHook("setupOptimisticUpdate", CallerHook)
    /\ \E c, d \in WrappedCalls :
          /\ hist[c].phase = "onMutate" /\ Cardinality(OrigCalls(c)) = 1
          /\ hist[d].phase = "onSettled" /\ Cardinality(OrigCalls(d)) = 1

==============================================================================
